---- MODULE Spec2Model ----
(***************************************************************************)
(* Model of IPython/qt/client.py: QtZMQSocketChannel (a ZMQ socket channel *)
(* that emits a Qt signal per received message), IOLoopThread (a thread    *)
(* running a pyzmq/tornado IOLoop) and QtKernelClient (start_channels /    *)
(* stop_channels and the kernel_info_reply intercept).                     *)
(*                                                                         *)
(* Threads of the program are modelled as interleaved actions:             *)
(*   - the consumer (GUI) thread, whose position is pc;                    *)
(*   - the loop threads, whose positions are tstate[t];                    *)
(*   - the thread calling flush(), whose position is flushPc.              *)
(***************************************************************************)
EXTENDS Integers, Sequences, FiniteSets, TLC

\* ---------------------------------------------------------------- bounds
MaxMsgs == 2        \* wire messages that arrive at the sockets
MaxSends == 2       \* send() calls
MaxThreads == 2     \* IOLoopThread instances created (start_channels calls)
MaxTime == 2        \* clock ticks
MaxTimeout == 1     \* largest flush timeout
MaxPending == 4     \* callbacks queued on the loop when a flush() may still begin
MaxCloses == 2      \* close() calls on one channel
MaxBeats == 3       \* heartbeat probes sent

\* --------------------------------------------------------------- domains
Channels == {"shell", "iopub", "stdin", "hb"}
\* the channels whose class is QtZMQSocketChannel (client.py:246-248)
ZmqChannels == {"shell", "iopub", "stdin"}
\* flush "is only used for the IOPub channel" (client.py:135)
FlushChannel == "iopub"
MsgTypes == {"kernel_info_reply", "status"}
Threads == 1..MaxThreads
NoThread == 0
\* QtHBChannel.time_to_dead, in seconds
time_to_dead == 3

VARIABLES
    now,            \* time.time(), in ticks
    chan,           \* per channel: _is_alive and socket
    constructed,    \* the channels constructed (a QtZMQSocketChannel: its
                    \* stream and receive callback registered on the loop)
    inbound,        \* per channel: frame sets readable on the socket
    arrived,        \* history: every frame set that reached the socket
    delivered,      \* history: messages emitted by message_received
    nextId,         \* id of the next wire message
    callbacks,      \* the IOLoop's callback queue (add_callback)
    submitted,      \* history: messages passed to send(), per channel
    wire,           \* history: session.send executions, per channel
    flushed,        \* FlushChannel's _flushed
    flushPc,        \* position of the thread inside flush()
    flushRound,     \* the i of "for i in range(2)", 1-based
    stopTime,       \* flush's stop_time
    flushSnap,      \* history: messages that had arrived when flush was called
    flushEarly,     \* history: the last flush returned before its deadline
    flushSets,      \* history: times _flushed went from False to True since
                    \* the last flush was called
    ioRunning,      \* IOLoop._running
    ioStopped,      \* IOLoop._stopped (a stop request not yet consumed)
    ioClosed,       \* IOLoop closed (close(all_fds=True))
    tstate,         \* per IOLoopThread: position of its thread
    exiting,        \* IOLoopThread._exiting (set by the atexit hook)
    ioloop_thread,  \* QtKernelClient.ioloop_thread (NoThread: None)
    interrupted,    \* history, per IOLoopThread: its last ioloop.start() raised EINTR
    start_errors,   \* history: the IOLoopThreads whose start() raised RuntimeError
    pc,             \* position of the consumer thread
    requested,      \* the channels asked of the start_channels in progress
    connections,    \* connections of message_received to _check_kernel_info_reply
    qtQueue,        \* queued slot invocations waiting for the consumer thread
    infoHandled,    \* history: messages given to _handle_kernel_info_reply
    hb,             \* the heartbeat channel's liveness state
    died            \* history: the values emitted by kernel_died

chanVars == <<chan, constructed>>
recvVars == <<inbound, arrived, delivered, nextId>>
sendVars == <<callbacks, submitted, wire>>
flushVars == <<flushed, flushPc, flushRound, stopTime, flushSnap, flushEarly,
               flushSets>>
loopVars == <<ioRunning, ioStopped, ioClosed>>
threadVars == <<tstate, exiting, ioloop_thread, interrupted, start_errors>>
clientVars == <<pc, requested>>
qtVars == <<connections, qtQueue, infoHandled>>
hbVars == <<hb, died>>
vars == <<now, hbVars, chanVars, recvVars, sendVars, flushVars, loopVars, threadVars,
          clientVars, qtVars>>

\* ------------------------------------------------------- Session (frames)
\* A frame of a multipart wire message.
IdentFrame(n) == [kind |-> "ident", id |-> n, ty |-> "none"]
DelimFrame == [kind |-> "delim", id |-> 0, ty |-> "none"]
BodyFrame(n, ty) == [kind |-> "body", id |-> n, ty |-> ty]
InvalidMsg == [msg_id |-> 0, msg_type |-> "invalid"]
NewMsg(n, ty) == [msg_id |-> n, msg_type |-> ty]

\* Session.serialize: the delimiter, then the packed message.
serialize(msg) == <<DelimFrame, BodyFrame(msg.msg_id, msg.msg_type)>>

\* Position of the first delimiter frame (0: none).
DelimPos(frames) ==
    LET S == {i \in 1..Len(frames) : frames[i].kind = "delim"}
    IN IF S = {} THEN 0 ELSE CHOOSE i \in S : \A j \in S : i <= j

\* Session.feed_identities: split the routing identities from the message.
feed_identities(frames) ==
    LET d == DelimPos(frames)
    IN [ident |-> SubSeq(frames, 1, d - 1),
        smsg |-> SubSeq(frames, d + 1, Len(frames))]

\* Session.deserialize: unpack the message from the frames after the delimiter.
deserialize(smsg) ==
    IF Len(smsg) >= 1 /\ smsg[1].kind = "body"
    THEN NewMsg(smsg[1].id, smsg[1].ty)
    ELSE InvalidMsg

\* ---------------------------------------------------- QtZMQSocketChannel
\* A channel: _is_alive, socket, and the history of its close(): the calls
\* made, the socket.close() calls made, whether one of those raised, and
\* whether a close() let an error out.
NewChannel ==
    [alive |-> FALSE, socket |-> "open", closes |-> 0, releases |-> 0,
     release_failed |-> FALSE, error |-> FALSE]

\* start(): self._is_alive = True
start(c) == [c EXCEPT !.alive = TRUE]

\* A stop() that releases the socket as well.
stop_and_release(c) == [c EXCEPT !.alive = FALSE, !.socket = "none"]

\* stop(): self._is_alive = False
stop(c) == [c EXCEPT !.alive = FALSE]

\* A close() that lets the failure of socket.close() out, the socket kept.
close_raising(c, ok) ==
    LET called == [c EXCEPT !.closes = @ + 1]
    IN IF c.socket # "none"
       THEN IF ok
            THEN [called EXCEPT !.releases = @ + 1, !.socket = "none"]
            ELSE [called EXCEPT !.releases = @ + 1, !.release_failed = TRUE,
                                !.error = TRUE]
       ELSE called

\* close(): if there is a socket, socket.close(linger=0) with whatever it
\* raises swallowed (ok: it did not raise), then self.socket = None
close(c, ok) ==
    LET called == [c EXCEPT !.closes = @ + 1]
    IN IF c.socket # "none"
       THEN IF ok
            THEN [called EXCEPT !.releases = @ + 1, !.socket = "none"]
            ELSE [called EXCEPT !.releases = @ + 1, !.release_failed = TRUE,
                                !.socket = "none"]
       ELSE called

\* A call_handlers that emits only while the channel is alive.
call_handlers_if_alive(c, msg) == IF c.alive THEN <<msg>> ELSE <<>>

\* call_handlers(msg): self.message_received.emit(msg); the messages emitted
call_handlers(c, msg) == <<msg>>

\* A _handle_recv that does not strip the routing identities.
handle_recv_with_idents(c, frames) == call_handlers(c, deserialize(frames))

\* _handle_recv(msg): strip the identities, deserialize, call_handlers
handle_recv(c, frames) ==
    call_handlers(c, deserialize(feed_identities(frames).smsg))

\* The heartbeat channel's start and stop (HBChannel, not in this file).
hb_start(c) == [c EXCEPT !.alive = TRUE]
hb_stop(c) == [c EXCEPT !.alive = FALSE]

\* The liveness state of the heartbeat: alive (beating), whether a probe
\* waits for its pong, the probes sent, the seconds waited since the last
\* probe and the seconds since the last heartbeat observed.
NewHeartbeat ==
    [beating |-> TRUE, probing |-> FALSE, probes |-> 0, waited |-> 0,
     since |-> 0]

\* A call_handlers that emits the signal twice.
hb_call_handlers_twice(since_last_heartbeat) ==
    <<since_last_heartbeat, since_last_heartbeat>>

\* QtHBChannel.call_handlers: self.kernel_died.emit(since_last_heartbeat);
\* the values emitted
hb_call_handlers(since_last_heartbeat) == <<since_last_heartbeat>>

StartOf(ch, c) == IF ch = "hb" THEN hb_start(c) ELSE start(c)
StopOf(ch, c) == IF ch = "hb" THEN hb_stop(c) ELSE stop(c)

\* ---------------------------------------------------------------- helpers
RECURSIVE Flatten(_)
Flatten(ss) == IF ss = <<>> THEN <<>> ELSE Head(ss) \o Flatten(Tail(ss))

\* n copies of x
Copies(x, n) == [i \in 1..n |-> x]

\* The messages _handle_recv emits for the first k frame sets of channel ch.
Emitted(ch, k) ==
    Flatten([i \in 1..k |-> handle_recv(chan[ch], inbound[ch][i])])

\* A queued connection posts one slot invocation per connection.
Posted(ch, msgs) ==
    IF ch = "shell"
    THEN Flatten([i \in 1..Len(msgs) |-> Copies(msgs[i], connections)])
    ELSE <<>>

\* The socket of ch hands its first k frame sets to _handle_recv.
Receive(ch, k) ==
    LET out == Emitted(ch, k)
    IN /\ inbound' = [inbound EXCEPT ![ch] = SubSeq(@, k + 1, Len(@))]
       /\ delivered' = [delivered EXCEPT ![ch] = @ \o out]
       /\ qtQueue' = qtQueue \o Posted(ch, out)
       /\ UNCHANGED <<arrived, nextId, connections, infoHandled>>

\* ------------------------------------------------------------------- Init
Init ==
    /\ now = 0
    /\ chan = [ch \in Channels |-> NewChannel]
    /\ constructed = {}
    /\ inbound = [ch \in ZmqChannels |-> <<>>]
    /\ arrived = [ch \in ZmqChannels |-> <<>>]
    /\ delivered = [ch \in ZmqChannels |-> <<>>]
    /\ nextId = 1
    /\ callbacks = <<>>
    /\ submitted = [ch \in ZmqChannels |-> <<>>]
    /\ wire = [ch \in ZmqChannels |-> <<>>]
    /\ flushed = FALSE
    /\ flushPc = "idle"
    /\ flushRound = 0
    /\ stopTime = 0
    /\ flushSnap = 0
    /\ flushEarly = FALSE
    /\ flushSets = 0
    /\ ioRunning = FALSE
    /\ ioStopped = FALSE
    /\ ioClosed = FALSE
    /\ tstate = [t \in Threads |-> "none"]
    /\ exiting = FALSE
    /\ ioloop_thread = NoThread
    /\ interrupted = [t \in Threads |-> FALSE]
    /\ start_errors = {}
    /\ pc = "idle"
    /\ requested = {}
    /\ connections = 0
    /\ qtQueue = <<>>
    /\ infoHandled = <<>>
    /\ hb = NewHeartbeat
    /\ died = <<>>

\* ---------------------------------------------------------- environment
\* A multipart message reaches the socket of ch: k routing identities, the
\* delimiter, the packed message.
Arrive(ch, k, ty) ==
    /\ nextId <= MaxMsgs
    /\ LET frames == [i \in 1..k |-> IdentFrame(i)]
                     \o serialize(NewMsg(nextId, ty))
       IN /\ inbound' = [inbound EXCEPT ![ch] = Append(@, frames)]
          /\ arrived' = [arrived EXCEPT ![ch] = Append(@, frames)]
    /\ nextId' = nextId + 1
    /\ UNCHANGED <<now, hbVars, chanVars, delivered, sendVars, flushVars,
                   loopVars, threadVars, clientVars, qtVars>>

\* ------------------------------------------- QtZMQSocketChannel: actions
\* start() called directly on a channel by the consumer thread.
ChannelStart(ch) ==
    /\ pc = "idle"
    /\ ch \in constructed
    /\ chan' = [chan EXCEPT ![ch] = start(@)]
    /\ UNCHANGED <<now, hbVars, constructed, recvVars, sendVars, flushVars, loopVars, threadVars,
                   clientVars, qtVars>>

\* stop() called directly on a channel by the consumer thread.
ChannelStop(ch) ==
    /\ pc = "idle"
    /\ ch \in constructed
    /\ chan' = [chan EXCEPT ![ch] = stop(@)]
    /\ UNCHANGED <<now, hbVars, constructed, recvVars, sendVars, flushVars, loopVars, threadVars,
                   clientVars, qtVars>>

\* close() called on a channel by the consumer thread; socket.close() may
\* raise.
ChannelClose(ch, ok) ==
    /\ pc = "idle"
    /\ ch \in constructed
    /\ chan[ch].closes < MaxCloses
    /\ chan' = [chan EXCEPT ![ch] = close(@, ok)]
    /\ UNCHANGED <<now, hbVars, constructed, recvVars, sendVars, flushVars, loopVars, threadVars,
                   clientVars, qtVars>>

SendTask(ch, msg) == [kind |-> "send", ch |-> ch, msg |-> msg]
FlushTask == [kind |-> "flush", ch |-> FlushChannel, msg |-> InvalidMsg]

\* IOLoop.add_callback: thread-safe, first in first out.
add_callback(cbs, task) == Append(cbs, task)

SendCount == Len(submitted["shell"]) + Len(submitted["iopub"]) + Len(submitted["stdin"])

\* session.send(self.stream, msg), run by thread `by`
Transmit(ch, msg, by) ==
    wire' = [wire EXCEPT ![ch] = Append(@, [frames |-> serialize(msg), by |-> by])]

\* A send() that does the transmission itself, on the calling thread.
SendOnCaller(ch) ==
    LET msg == NewMsg(SendCount + 1, "request")
    IN /\ ch \in constructed
       /\ SendCount < MaxSends
       /\ submitted' = [submitted EXCEPT ![ch] = Append(@, msg)]
       /\ Transmit(ch, msg, "caller")
       /\ UNCHANGED <<now, hbVars, chanVars, recvVars, callbacks, flushVars, loopVars,
                      threadVars, clientVars, qtVars>>

\* send(msg): queue thread_send on the loop; callable from any thread.
Send(ch) ==
    LET msg == NewMsg(SendCount + 1, "request")
    IN /\ ch \in constructed
       /\ SendCount < MaxSends
       /\ submitted' = [submitted EXCEPT ![ch] = Append(@, msg)]
       /\ callbacks' = add_callback(callbacks, SendTask(ch, msg))
       /\ UNCHANGED <<now, hbVars, chanVars, recvVars, wire, flushVars, loopVars,
                      threadVars, clientVars, qtVars>>

\* ------------------------------------------------------------ IOLoopThread
IsAlive(t) == tstate[t] \in {"started", "inloop", "inflush"}

\* run(): self.ioloop.start().  IOLoop.start() returns at once when stop() was
\* called before it (and consumes that request); otherwise the loop runs.
RunEnter(t) ==
    /\ tstate[t] = "started"
    /\ IF ioStopped
       THEN /\ ioStopped' = FALSE
            /\ tstate' = [tstate EXCEPT ![t] = "done"]
            /\ interrupted' = [interrupted EXCEPT ![t] = FALSE]
            /\ UNCHANGED ioRunning
       ELSE /\ ioRunning' = TRUE
            /\ tstate' = [tstate EXCEPT ![t] = "inloop"]
            /\ UNCHANGED <<ioStopped, interrupted>>
    /\ UNCHANGED <<now, hbVars, chanVars, recvVars, sendVars, flushVars, ioClosed,
                   exiting, ioloop_thread, start_errors, clientVars, qtVars>>

\* run(): ioloop.start() returns because the loop saw stop(); "else: break".
LoopReturn(t) ==
    /\ tstate[t] = "inloop"
    /\ ~ioRunning
    /\ ioStopped' = FALSE
    /\ tstate' = [tstate EXCEPT ![t] = "done"]
    /\ interrupted' = [interrupted EXCEPT ![t] = FALSE]
    /\ UNCHANGED <<now, hbVars, chanVars, recvVars, sendVars, flushVars, ioRunning,
                   ioClosed, exiting, ioloop_thread, start_errors, clientVars,
                   qtVars>>

\* A run() that ends on EINTR once _exiting is set.
LoopEINTRBreaksWhenExiting(t) ==
    /\ tstate[t] = "inloop"
    /\ ioStopped' \in {ioStopped, FALSE}
    /\ tstate' = [tstate EXCEPT ![t] = IF exiting THEN "done" ELSE "started"]
    /\ interrupted' = [interrupted EXCEPT ![t] = TRUE]
    /\ UNCHANGED <<now, hbVars, chanVars, recvVars, sendVars, flushVars, ioRunning,
                   ioClosed, exiting, ioloop_thread, start_errors, clientVars,
                   qtVars>>

\* run(): ioloop.start() raises ZMQError with errno EINTR; "continue".
\* Whether an IOLoop.start() that is left by an exception keeps a pending
\* stop request depends on the loop library (tornado's start() resets the
\* flag in a finally block, older loops do not): both outcomes are modelled.
LoopEINTR(t) ==
    /\ tstate[t] = "inloop"
    /\ ioStopped' \in {ioStopped, FALSE}
    /\ tstate' = [tstate EXCEPT ![t] = "started"]
    /\ interrupted' = [interrupted EXCEPT ![t] = TRUE]
    /\ UNCHANGED <<now, hbVars, chanVars, recvVars, sendVars, flushVars, ioRunning,
                   ioClosed, exiting, ioloop_thread, start_errors, clientVars,
                   qtVars>>

\* run(): ioloop.start() raises another error.  A ZMQError is re-raised; any
\* other exception ends the thread silently when _exiting is set, and is
\* re-raised otherwise (reading an unset _exiting raises as well).
LoopFail(t, kind) ==
    /\ tstate[t] = "inloop"
    /\ ioStopped' \in {ioStopped, FALSE}
    /\ tstate' = [tstate EXCEPT ![t] =
                     IF kind = "other" /\ exiting THEN "done" ELSE "failed"]
    /\ interrupted' = [interrupted EXCEPT ![t] = FALSE]
    /\ UNCHANGED <<now, hbVars, chanVars, recvVars, sendVars, flushVars, ioRunning,
                   ioClosed, exiting, ioloop_thread, start_errors, clientVars,
                   qtVars>>

\* _notice_exit(): the atexit hook of every IOLoopThread constructed.
NoticeExit ==
    /\ ioloop_thread # NoThread
    /\ ~exiting
    /\ exiting' = TRUE
    /\ UNCHANGED <<now, hbVars, chanVars, recvVars, sendVars, flushVars, loopVars,
                   tstate, ioloop_thread, interrupted, start_errors,
                   clientVars, qtVars>>

\* A start() that runs the thread of an instance started before once more.
StartAgainRestarts(t) ==
    /\ pc = "idle"
    /\ tstate[t] # "none"
    /\ tstate' = [tstate EXCEPT ![t] = "started"]
    /\ UNCHANGED <<now, hbVars, chanVars, recvVars, sendVars, flushVars, loopVars,
                   exiting, ioloop_thread, interrupted, start_errors,
                   clientVars, qtVars>>

\* start() called on an IOLoopThread that was started before: Thread.start
\* raises RuntimeError (the docstring of stop) and starts nothing.
StartAgain(t) ==
    /\ pc = "idle"
    /\ tstate[t] # "none"
    /\ start_errors' = start_errors \cup {t}
    /\ UNCHANGED <<now, hbVars, chanVars, recvVars, sendVars, flushVars, loopVars,
                   tstate, exiting, ioloop_thread, interrupted, clientVars,
                   qtVars>>

\* The loop, run by thread t, finds the socket of ch readable: the stream
\* registered by the channel's constructor calls _handle_recv with the next
\* frame set.
HandleRecv(t, ch) ==
    /\ tstate[t] = "inloop"
    /\ ch \in constructed
    /\ inbound[ch] # <<>>
    /\ Receive(ch, 1)
    /\ UNCHANGED <<now, hbVars, chanVars, sendVars, flushVars, loopVars, threadVars,
                   clientVars>>

\* The loop, run by thread t, runs the next callback, a thread_send.
RunSendCallback(t) ==
    /\ tstate[t] = "inloop"
    /\ callbacks # <<>>
    /\ Head(callbacks).kind = "send"
    /\ callbacks' = Tail(callbacks)
    /\ Transmit(Head(callbacks).ch, Head(callbacks).msg, "loop")
    /\ UNCHANGED <<now, hbVars, chanVars, recvVars, submitted, flushVars, loopVars,
                   threadVars, clientVars, qtVars>>

\* ------------------------------------------------------------------ flush
\* _flush(), first half, run by loop thread t as a callback: self.stream.flush()
\* hands every frame set pending on the socket to _handle_recv.
RunFlushCallback(t) ==
    /\ tstate[t] = "inloop"
    /\ callbacks # <<>>
    /\ Head(callbacks).kind = "flush"
    /\ callbacks' = Tail(callbacks)
    /\ Receive(FlushChannel, Len(inbound[FlushChannel]))
    /\ tstate' = [tstate EXCEPT ![t] = "inflush"]
    /\ UNCHANGED <<now, hbVars, chanVars, submitted, wire, flushVars, loopVars, exiting,
                   ioloop_thread, interrupted, start_errors, clientVars>>

\* _flush(), second half: self._flushed = True
FlushSetFlag(t) ==
    /\ tstate[t] = "inflush"
    /\ flushed' = TRUE
    /\ flushSets' = IF flushed THEN flushSets ELSE flushSets + 1
    /\ tstate' = [tstate EXCEPT ![t] = "inloop"]
    /\ UNCHANGED <<now, hbVars, chanVars, recvVars, sendVars, flushPc, flushRound,
                   stopTime, flushSnap, flushEarly, loopVars,
                   exiting, ioloop_thread, interrupted, start_errors,
                   clientVars, qtVars>>

\* flush(timeout): stop_time = time.time() + timeout, then the first round:
\* self._flushed = False; self.ioloop.add_callback(self._flush)
FlushBegin(timeout) ==
    /\ FlushChannel \in constructed
    /\ flushPc \in {"idle", "returned"}
    /\ Len(callbacks) + 2 <= MaxPending
    /\ now + timeout <= MaxTime
    /\ stopTime' = now + timeout
    /\ flushSnap' = Len(arrived[FlushChannel])
    /\ flushed' = FALSE
    /\ callbacks' = add_callback(callbacks, FlushTask)
    /\ flushRound' = 1
    /\ flushSets' = 0
    /\ flushPc' = "poll"
    /\ UNCHANGED <<now, hbVars, chanVars, recvVars, submitted, wire, flushEarly,
                   loopVars, threadVars, clientVars, qtVars>>

\* A flush of a single round.
FlushSingleRound ==
    /\ flushPc' = "returned"
    /\ flushEarly' = (now < stopTime)
    /\ flushRound' = 0
    /\ stopTime' = 0
    /\ UNCHANGED <<flushed, callbacks>>

\* The end of a round's wait, and what follows it: the second round, or the
\* return of flush (its locals i and stop_time are gone then).
FlushNextRound ==
    IF flushRound = 1
    THEN /\ flushed' = FALSE
         /\ callbacks' = add_callback(callbacks, FlushTask)
         /\ flushRound' = 2
         /\ UNCHANGED <<flushPc, flushEarly, stopTime>>
    ELSE /\ flushPc' = "returned"
         /\ flushEarly' = (now < stopTime)
         /\ flushRound' = 0
         /\ stopTime' = 0
         /\ UNCHANGED <<flushed, callbacks>>

\* A wait that ends only when the flag is set.
FlushPollNoDeadline ==
    /\ flushPc = "poll"
    /\ flushed
    /\ FlushNextRound
    /\ UNCHANGED <<now, hbVars, chanVars, recvVars, submitted, wire, flushSnap,
                   flushSets, loopVars, threadVars, clientVars, qtVars>>

\* A wait that ends at once.
FlushPollNoWait ==
    /\ flushPc = "poll"
    /\ FlushNextRound
    /\ UNCHANGED <<now, hbVars, chanVars, recvVars, submitted, wire, flushSnap,
                   flushSets, loopVars, threadVars, clientVars, qtVars>>

\* "while not self._flushed and time.time() < stop_time: time.sleep(0.01)":
\* the wait ends when the flag is set or the deadline has passed.
FlushPoll ==
    /\ flushPc = "poll"
    /\ flushed \/ now >= stopTime
    /\ FlushNextRound
    /\ UNCHANGED <<now, hbVars, chanVars, recvVars, submitted, wire, flushSnap,
                   flushSets, loopVars, threadVars, clientVars, qtVars>>

\* Time passes.
Tick ==
    /\ now < MaxTime
    /\ now' = now + 1
    /\ UNCHANGED <<hbVars, chanVars, recvVars, sendVars, flushVars, loopVars, threadVars,
                   clientVars, qtVars>>

\* ------------------------------------------------------------- QtHBChannel
\* The heartbeat protocol sends a probe.
HbProbe ==
    /\ chan["hb"].alive
    /\ ~hb.probing
    /\ hb.probes < MaxBeats
    /\ hb' = [hb EXCEPT !.probing = TRUE, !.probes = @ + 1, !.waited = 0]
    /\ UNCHANGED <<now, died, chanVars, recvVars, sendVars, flushVars,
                   loopVars, threadVars, clientVars, qtVars>>

\* A second passes with no pong.
HbWait ==
    /\ hb.probing
    /\ hb.waited <= time_to_dead
    /\ hb' = [hb EXCEPT !.waited = @ + 1, !.since = @ + 1]
    /\ UNCHANGED <<now, died, chanVars, recvVars, sendVars, flushVars,
                   loopVars, threadVars, clientVars, qtVars>>

\* A pong is observed within time_to_dead of the probe: alive.
HbPong ==
    /\ hb.probing
    /\ hb.waited <= time_to_dead
    /\ hb' = [hb EXCEPT !.probing = FALSE, !.beating = TRUE, !.since = 0]
    /\ UNCHANGED <<now, died, chanVars, recvVars, sendVars, flushVars,
                   loopVars, threadVars, clientVars, qtVars>>

\* No pong was observed for longer than time_to_dead: on the transition from
\* alive to dead the protocol calls call_handlers with the time since the
\* last heartbeat.
HbTimeout ==
    /\ hb.probing
    /\ hb.waited > time_to_dead
    /\ hb' = [hb EXCEPT !.probing = FALSE, !.beating = FALSE]
    /\ died' = IF hb.beating THEN died \o hb_call_handlers(hb.since) ELSE died
    /\ UNCHANGED <<now, chanVars, recvVars, sendVars, flushVars,
                   loopVars, threadVars, clientVars, qtVars>>

\* ----------------------------------------------------------- QtKernelClient
\* A start_channels that starts the loop thread without the intercept.
StartChannelsBeginNoIntercept(req) ==
    /\ pc = "idle"
    /\ ioloop_thread < MaxThreads
    /\ constructed' = constructed \cup (req \cap {"shell"})
    /\ ioloop_thread' = ioloop_thread + 1
    /\ tstate' = [tstate EXCEPT ![ioloop_thread + 1] = "started"]
    /\ requested' = req
    /\ pc' = "starting"
    /\ UNCHANGED <<now, hbVars, chan, recvVars, sendVars, flushVars, loopVars,
                   exiting, interrupted, start_errors, qtVars>>

\* start_channels, up to the start of the loop thread: when the shell channel
\* is asked for, take self.shell_channel (constructed now if it was not) and
\* connect the intercept; construct the IOLoopThread on self.ioloop and
\* start it.
StartChannelsBegin(req) ==
    /\ pc = "idle"
    /\ ioloop_thread < MaxThreads
    /\ constructed' = constructed \cup (req \cap {"shell"})
    /\ connections' = IF "shell" \in req THEN connections + 1 ELSE connections
    /\ ioloop_thread' = ioloop_thread + 1
    /\ tstate' = [tstate EXCEPT ![ioloop_thread + 1] = "started"]
    /\ requested' = req
    /\ pc' = "starting"
    /\ UNCHANGED <<now, hbVars, chan, recvVars, sendVars, flushVars, loopVars,
                   exiting, interrupted, start_errors, qtQueue, infoHandled>>

\* KernelClient.start_channels: construct and start every channel asked for.
StartChannelsSuper ==
    /\ pc = "starting"
    /\ constructed' = constructed \cup requested
    /\ chan' = [ch \in Channels |->
                   IF ch \in requested THEN StartOf(ch, chan[ch]) ELSE chan[ch]]
    /\ pc' = "idle"
    /\ UNCHANGED <<now, hbVars, recvVars, sendVars, flushVars, loopVars, threadVars,
                   requested, qtVars>>

\* KernelClient.stop_channels: stop every channel.
StopChannelsSuper ==
    /\ pc = "idle"
    /\ chan' = [ch \in Channels |-> StopOf(ch, chan[ch])]
    /\ pc' = "stopping"
    /\ UNCHANGED <<now, hbVars, constructed, recvVars, sendVars, flushVars, loopVars, threadVars,
                   requested, qtVars>>

\* stop_channels: "if self.ioloop_thread.is_alive(): self.ioloop_thread.stop()",
\* up to IOLoopThread.stop's self.ioloop.stop().  Without a loop thread the
\* attribute access fails and stop_channels ends there.
StopChannelsLoop ==
    /\ pc = "stopping"
    /\ IF ioloop_thread # NoThread /\ IsAlive(ioloop_thread)
       THEN /\ ioRunning' = FALSE
            /\ ioStopped' = TRUE
            /\ pc' = "joining"
       ELSE /\ pc' = "idle"
            /\ UNCHANGED <<ioRunning, ioStopped>>
    /\ UNCHANGED <<now, hbVars, chanVars, recvVars, sendVars, flushVars, ioClosed,
                   threadVars, requested, qtVars>>

\* A stop() that returns after join() without closing the loop.
StopJoinNoClose ==
    /\ pc = "joining"
    /\ ~IsAlive(ioloop_thread)
    /\ pc' = "idle"
    /\ UNCHANGED <<now, hbVars, chanVars, recvVars, sendVars, flushVars,
                   loopVars, threadVars, requested, qtVars>>

\* IOLoopThread.stop: self.join() returns once the thread has ended, then
\* self.close() closes the loop; stop_channels returns.
StopJoin ==
    /\ pc = "joining"
    /\ ~IsAlive(ioloop_thread)
    /\ ioClosed' = TRUE
    /\ pc' = "idle"
    /\ UNCHANGED <<now, hbVars, chanVars, recvVars, sendVars, flushVars, ioRunning,
                   ioStopped, threadVars, requested, qtVars>>

\* _check_kernel_info_reply(msg), run by the consumer thread: a
\* kernel_info_reply is given to _handle_kernel_info_reply and the slot
\* disconnects itself.
check_kernel_info_reply(msg) ==
    IF msg.msg_type = "kernel_info_reply"
    THEN /\ infoHandled' = Append(infoHandled, msg)
         /\ connections' = IF connections > 0 THEN connections - 1 ELSE 0
    ELSE UNCHANGED <<infoHandled, connections>>

\* The consumer thread takes the next queued slot invocation.  Whether an
\* invocation queued before the slot was disconnected still runs depends on
\* the Qt binding: both outcomes are modelled.
ProcessEvent ==
    /\ pc = "idle"
    /\ qtQueue # <<>>
    /\ qtQueue' = Tail(qtQueue)
    /\ \/ check_kernel_info_reply(Head(qtQueue))
       \/ /\ connections = 0
          /\ UNCHANGED <<infoHandled, connections>>
    /\ UNCHANGED <<now, hbVars, chanVars, recvVars, sendVars, flushVars, loopVars,
                   threadVars, clientVars>>

\* ---------------------------------------------------------- specifications
\* The channel sets start_channels is called with.
RequestSets == {Channels, Channels \ {"shell"}, {"shell"}}

\* One client, started once with every channel.
StartOnce ==
    /\ ioloop_thread = NoThread
    /\ StartChannelsBegin(Channels)

\* The receive path of the channels: messages arrive on the sockets while the
\* consumer starts and stops channels and the loop thread delivers.
Next ==
    \/ StartOnce
    \/ StartChannelsSuper
    \/ \E ch \in ZmqChannels : ChannelStop(ch)
    \/ \E ch \in ZmqChannels : ChannelStart(ch)
    \/ \E t \in Threads : RunEnter(t)
    \/ \E ch \in ZmqChannels, k \in 0..1, ty \in MsgTypes : Arrive(ch, k, ty)
    \/ \E t \in Threads, ch \in ZmqChannels : HandleRecv(t, ch)
    \/ ProcessEvent

Spec == Init /\ [][Next]_vars

\* The send path: send() from any thread, thread_send on the loop thread,
\* while the client is started and stopped.
SendNext ==
    \/ StartOnce
    \/ StartChannelsSuper
    \/ StopChannelsSuper
    \/ StopChannelsLoop
    \/ StopJoin
    \/ \E t \in Threads : RunEnter(t)
    \/ \E t \in Threads : LoopReturn(t)
    \/ \E ch \in ZmqChannels : Send(ch)
    \/ \E t \in Threads : RunSendCallback(t)

SendSpec == Init /\ [][SendNext]_vars

\* flush() on the IOPub channel, against a loop thread that may not have
\* started, may run, fail or be stopped, while time passes.
FlushNext ==
    \/ StartOnce
    \/ StartChannelsSuper
    \/ StopChannelsSuper
    \/ StopChannelsLoop
    \/ StopJoin
    \/ \E t \in Threads : RunEnter(t)
    \/ \E t \in Threads : LoopReturn(t)
    \/ \E t \in Threads, kind \in {"zmq", "other"} : LoopFail(t, kind)
    \/ Arrive(FlushChannel, 0, "status")
    \/ \E t \in Threads : HandleRecv(t, FlushChannel)
    \/ \E timeout \in 0..MaxTimeout : FlushBegin(timeout)
    \/ FlushPoll
    \/ \E t \in Threads : RunFlushCallback(t)
    \/ \E t \in Threads : FlushSetFlag(t)
    \/ Tick

FlushSpec == Init /\ [][FlushNext]_vars

\* The thread inside flush() keeps running, and time passes; nothing is
\* assumed of the loop thread.
FairFlushSpec == FlushSpec /\ WF_vars(FlushPoll) /\ WF_vars(Tick)

\* close() on the channels of a started client, any number of times, with
\* a socket.close() that may raise.
CloseNext ==
    \/ StartOnce
    \/ StartChannelsSuper
    \/ \E ch \in ZmqChannels : ChannelStop(ch)
    \/ \E ch \in ZmqChannels, ok \in BOOLEAN : ChannelClose(ch, ok)

CloseSpec == Init /\ [][CloseNext]_vars

\* The heartbeat channel of a client that is started once and stopped:
\* probes, pongs and timeouts.
HbNext ==
    \/ StartOnce
    \/ StartChannelsSuper
    \/ StopChannelsSuper
    \/ StopChannelsLoop
    \/ StopJoin
    \/ \E t \in Threads : RunEnter(t)
    \/ \E t \in Threads : LoopReturn(t)
    \/ HbProbe
    \/ HbWait
    \/ HbPong
    \/ HbTimeout

HbSpec == Init /\ [][HbNext]_vars

\* The start of the handshake: start_channels called with and without the
\* shell channel, any number of times, while messages arrive on the shell
\* socket and the loop threads deliver them.
HandshakeNext ==
    \/ \E req \in RequestSets : StartChannelsBegin(req)
    \/ StartChannelsSuper
    \/ \E t \in Threads : RunEnter(t)
    \/ \E ty \in MsgTypes : Arrive("shell", 0, ty)
    \/ \E t \in Threads : HandleRecv(t, "shell")
    \/ ProcessEvent

HandshakeSpec == Init /\ [][HandshakeNext]_vars

\* The loop threads of a client: started by start_channels, interrupted,
\* failing or stopped, with the exit hook and with start() called again.
ThreadNext ==
    \/ StartChannelsBegin(Channels)
    \/ StartChannelsSuper
    \/ StopChannelsSuper
    \/ StopChannelsLoop
    \/ StopJoin
    \/ \E t \in Threads : RunEnter(t)
    \/ \E t \in Threads : LoopReturn(t)
    \/ \E t \in Threads : LoopEINTR(t)
    \/ \E t \in Threads, kind \in {"zmq", "other"} : LoopFail(t, kind)
    \/ NoticeExit
    \/ \E t \in Threads : StartAgain(t)

ThreadSpec == Init /\ [][ThreadNext]_vars

\* The client: start_channels and stop_channels in any order, with and
\* without the shell channel, and the loop threads they start and stop.
ClientNext ==
    \/ \E req \in RequestSets : StartChannelsBegin(req)
    \/ StartChannelsSuper
    \/ StopChannelsSuper
    \/ StopChannelsLoop
    \/ StopJoin
    \/ \E ch \in Channels \ {"hb"} : ChannelClose(ch, TRUE)
    \/ \E t \in Threads : RunEnter(t)
    \/ \E t \in Threads : LoopReturn(t)
    \/ \E t \in Threads : LoopEINTR(t)
    \/ \E t \in Threads, kind \in {"zmq", "other"} : LoopFail(t, kind)
    \/ NoticeExit

ClientSpec == Init /\ [][ClientNext]_vars

\* Every started loop thread keeps running, and so does the consumer thread
\* blocked in join().
FairClientSpec ==
    /\ ClientSpec
    /\ \A t \in Threads : WF_vars(RunEnter(t)) /\ WF_vars(LoopReturn(t))
    /\ WF_vars(StopJoin)

\* ------------------------------------------------------------- properties
\* The message a frame set carries: its last frame, unpacked.
Payload(frames) ==
    NewMsg(frames[Len(frames)].id, frames[Len(frames)].ty)

\* C1: on every channel the messages emitted are, in order and one for one,
\* the messages of the frame sets handed to the receive callback: nothing is
\* dropped, duplicated or reordered.
DeliveredInOrder ==
    \A ch \in ZmqChannels :
        /\ Len(delivered[ch]) + Len(inbound[ch]) = Len(arrived[ch])
        /\ \A i \in 1..Len(delivered[ch]) :
               delivered[ch][i] = Payload(arrived[ch][i])

\* C1 witness: two messages were delivered on one channel, the first of
\* which came with a routing identity.
TwoDeliveredSeen ==
    \E ch \in ZmqChannels :
        /\ Len(delivered[ch]) >= 2
        /\ Len(arrived[ch][1]) > 2

\* The send tasks queued on the loop for channel ch.
PendingSends(ch) ==
    SelectSeq(callbacks, LAMBDA task : task.kind = "send" /\ task.ch = ch)

\* C2: every transmission is made by the loop thread, never by the thread
\* that called send; send only queues a task; and the transmissions of a
\* channel are those of its sends, in the order of the sends.
SendOnLoopInOrder ==
    \A ch \in ZmqChannels :
        /\ Len(wire[ch]) + Len(PendingSends(ch)) = Len(submitted[ch])
        /\ \A i \in 1..Len(wire[ch]) :
               /\ wire[ch][i].by = "loop"
               /\ wire[ch][i].frames = serialize(submitted[ch][i])
        /\ \A i \in 1..Len(PendingSends(ch)) :
               PendingSends(ch)[i].msg = submitted[ch][Len(wire[ch]) + i]

\* C2 witness: two sends on one channel were both transmitted.
TwoTransmittedSeen ==
    \E ch \in ZmqChannels : Len(wire[ch]) >= 2

\* C3 (as stated): whenever flush has returned, every message that was
\* receivable on the channel when flush was called has been delivered.
FlushReturnsAfterDelivery ==
    flushPc = "returned" => Len(delivered[FlushChannel]) >= flushSnap

\* C3 (amended): whenever flush has returned before its deadline, every
\* message that was receivable on the channel when flush was called has been
\* delivered.
FlushEarlyReturnAfterDelivery ==
    (flushPc = "returned" /\ flushEarly)
        => Len(delivered[FlushChannel]) >= flushSnap

\* C3 witness: a flush called with a message pending returned before its
\* deadline.
FlushEarlyReturnSeen ==
    /\ flushPc = "returned"
    /\ flushEarly
    /\ flushSnap > 0

\* C4: a flush that is waiting always returns, whatever the loop thread does:
\* the wait is left as soon as the deadline has passed.
FlushAlwaysReturns == (flushPc = "poll") ~> (flushPc = "returned")

\* C4 witness: flush returned at its deadline, the flag unset, with the loop
\* thread ended by an error.
FlushTimedOutSeen ==
    /\ flushPc = "returned"
    /\ ~flushEarly
    /\ ~flushed
    /\ ioloop_thread # NoThread
    /\ tstate[ioloop_thread] = "failed"

\* C5: a stop() of the first loop thread that waits in join() always returns.
StopAlwaysReturns ==
    (pc = "joining" /\ ioloop_thread = 1) ~> (pc = "idle")

\* C6: after one start_channels with the shell channel, the handshake
\* handler is invoked at most once, and only for a kernel_info_reply.
HandshakeOnce ==
    /\ Len(infoHandled) <= 1
    /\ \A i \in 1..Len(infoHandled) :
           infoHandled[i].msg_type = "kernel_info_reply"

\* C7: while start_channels has started the loop thread, every channel asked
\* for is alive.
ChannelsAliveBeforeLoop ==
    (pc = "starting" /\ IsAlive(ioloop_thread))
        => \A ch \in requested : chan[ch].alive

AtMostOneLoopRunner ==
    Cardinality({t \in Threads : tstate[t] \in {"inloop", "inflush"}}) <= 1

\* C10 (as stated): a message is emitted only while its channel is alive.
DeliveredOnlyWhileAlive ==
    [][\A ch \in ZmqChannels :
           delivered'[ch] # delivered[ch] => chan[ch].alive]_vars

\* C10 (amended): a frame set handed to the receive callback while the
\* channel is not alive is emitted like any other.
DeliveredThoughNotAlive ==
    [][\A ch \in ZmqChannels :
           (~chan[ch].alive /\ Len(inbound'[ch]) < Len(inbound[ch]))
               => delivered'[ch] = Append(delivered[ch], Payload(Head(inbound[ch])))]_vars

\* C10 witness: inside start_channels, before any channel was started, the
\* shell channel has emitted a message.
DeliveredBeforeStartSeen ==
    /\ pc = "starting"
    /\ ~chan["shell"].alive
    /\ Len(delivered["shell"]) > 0

\* C11: on every channel and after any number of close() calls, socket.close()
\* was called exactly once, by the first close(), whether or not it raised;
\* no close() let an error out; and the socket reference is empty.
CloseIdempotent ==
    \A ch \in ZmqChannels :
        /\ ~chan[ch].error
        /\ chan[ch].releases = (IF chan[ch].closes > 0 THEN 1 ELSE 0)
        /\ chan[ch].closes > 0 => chan[ch].socket = "none"

\* C11 witness: a channel was closed twice, and the socket.close() of the
\* first call raised.
ClosedTwiceSeen ==
    \E ch \in ZmqChannels :
        /\ chan[ch].closes = 2
        /\ chan[ch].release_failed

\* C12: once _exiting is set, an ioloop.start() that ends with an error other
\* than EINTR ends the thread silently, whatever the class of the error.
ExitFlagSwallowsAll ==
    [][\A t \in Threads :
           (exiting /\ tstate[t] = "inloop" /\ ~interrupted'[t]
                /\ tstate'[t] \in {"done", "failed"})
               => tstate'[t] = "done"]_vars

\* The state of the LoopThread state machine an IOLoopThread is in:
\* 0 not started, 1 running or stopping, 2 stopped.
Stage(st) ==
    IF st = "none" THEN 0 ELSE IF st \in {"done", "failed"} THEN 2 ELSE 1

\* C13: an IOLoopThread only moves forward; a start() on an instance started
\* before raises and starts nothing; an instance that has ended (so also one
\* whose stop() has returned) never runs its loop again.
ThreadOnlyForward ==
    [][\A t \in Threads :
           /\ Stage(tstate'[t]) >= Stage(tstate[t])
           /\ Stage(tstate[t]) = 2 => tstate'[t] = tstate[t]
           /\ (t \in start_errors' \ start_errors) => tstate' = tstate]_vars

\* C13 witness: after stop() returned (the loop closed), start() was called
\* again on the ended instance and raised.
StartAfterStopSeen ==
    \E t \in Threads :
        /\ t \in start_errors
        /\ tstate[t] = "done"
        /\ ioClosed
        /\ pc = "idle"

\* C17: an ioloop.start() that raises EINTR leaves the thread alive and about
\* to call ioloop.start() again, with or without _exiting; the thread ends
\* only when ioloop.start() returns or raises another error.
EINTRRetried ==
    [][\A t \in Threads :
           /\ (tstate[t] = "inloop" /\ tstate'[t] \notin {"inloop", "inflush"}
                   /\ interrupted'[t])
                  => tstate'[t] = "started"
           /\ (tstate[t] = "started" /\ interrupted[t]
                   /\ tstate'[t] # "started")
                  => tstate'[t] \in {"inloop", "done"}
           /\ (IsAlive(t) /\ ~IsAlive(t)')
                  => ~interrupted'[t]]_vars

\* C17 witness: with _exiting set, a thread whose ioloop.start() raised EINTR
\* runs the loop again.
EINTRWithExitFlagSeen ==
    \E t \in Threads :
        /\ exiting
        /\ interrupted[t]
        /\ tstate[t] = "inloop"

\* C14: kernel_died is emitted exactly when the heartbeat goes from alive to
\* dead, which happens only when no pong came for longer than time_to_dead
\* after the probe; it is emitted once, with the time since the last
\* heartbeat; no other step, an on-time pong included, emits it.
KernelDiedOncePerTransition ==
    [][/\ (hb.beating /\ ~hb'.beating)
           => /\ died' = Append(died, hb.since)
              /\ hb.probing /\ hb.waited > time_to_dead
       /\ ~(hb.beating /\ ~hb'.beating) => died' = died
       /\ (hb.probing /\ hb.waited > time_to_dead /\ hb.beating /\ hb' # hb)
           => ~hb'.beating]_vars

\* C14 witness: the kernel died, an on-time pong brought it back without an
\* event, and it died again: two events, the second one carrying the time
\* since that pong.
DiedTwiceSeen ==
    /\ Len(died) = 2
    /\ ~hb.beating
    /\ died[2] = time_to_dead + 1

\* The intercept has been connected at some time: it is connected now, or it
\* has fired (only firing disconnects it).
InterceptRegistered == connections >= 1 \/ infoHandled # <<>>

\* C15: no loop thread runs the loop with the shell channel on it before the
\* intercept has been connected, and so every message the shell channel
\* emits, a kernel_info_reply included, is emitted with the intercept
\* connected before; while the intercept is connected the message is queued
\* for it.
InterceptBeforeDelivery ==
    [][/\ (\E t \in Threads : tstate'[t] = "inloop" /\ "shell" \in constructed')
           => InterceptRegistered'
       /\ Len(delivered'["shell"]) > Len(delivered["shell"])
           => /\ InterceptRegistered
              /\ connections >= 1 => Len(qtQueue') > Len(qtQueue)]_vars

\* C15 witness: the consumer is still inside start_channels when the loop
\* thread has emitted a kernel_info_reply, which is queued for the intercept.
ReplyDuringStartSeen ==
    /\ pc = "starting"
    /\ ioloop_thread = 1
    /\ Len(delivered["shell"]) = 1
    /\ delivered["shell"][1].msg_type = "kernel_info_reply"
    /\ Len(qtQueue) = 1

\* C16: the consumer thread constructs a channel on the loop (attaching its
\* stream and receive callback) only while no loop thread runs the loop.
ConstructedOnlyWhileLoopIdle ==
    [][(constructed' \cap ZmqChannels) # (constructed \cap ZmqChannels)
           => \A t \in Threads : tstate[t] \notin {"inloop", "inflush"}]_vars

\* The drain tasks queued on the loop and not yet run.
PendingFlushes == SelectSeq(callbacks, LAMBDA task : task.kind = "flush")

\* C18 (as stated): whenever flush has returned before its deadline, the
\* drain tasks it scheduled, the last ones queued, have run.
FlushEarlyOwnDrainsRan ==
    (flushPc = "returned" /\ flushEarly) => PendingFlushes = <<>>

\* C18 (amended): whenever flush has returned before its deadline, the shared
\* flag has been set twice since the call, once in each round.
FlushEarlyAfterTwoSets ==
    (flushPc = "returned" /\ flushEarly) => flushSets = 2

\* C18 witness: a flush returned before its deadline on the strength of the
\* drain tasks an earlier flush left behind; the two it scheduled itself are
\* still queued.
StaleDrainEndsFlushSeen ==
    /\ flushPc = "returned"
    /\ flushEarly
    /\ Len(PendingFlushes) = 2

\* stop_channels returns: it leaves its last step.
StopChannelsReturns ==
    /\ pc \in {"stopping", "joining"}
    /\ pc' = "idle"
    /\ ioloop_thread # NoThread

\* C19 (as stated): whenever stop_channels returns, the loop thread has ended
\* and the loop is closed.
StopReleasesLoopAlways ==
    [][StopChannelsReturns
           => /\ ~IsAlive(ioloop_thread)'
              /\ ioClosed']_vars

\* C19 (amended): whenever stop_channels returns, the loop thread has ended;
\* when it found the thread alive it has closed the loop, and when the thread
\* had ended before it has left the loop as it was.
StopReleasesLoopIfAlive ==
    [][StopChannelsReturns
           => /\ ~IsAlive(ioloop_thread)'
              /\ pc = "joining" => ioClosed'
              /\ pc = "stopping" => ioClosed' = ioClosed]_vars

\* C19 witness: stop_channels has returned (every channel constructed and
\* stopped) after the loop thread failed on its own, and the loop is open.
StoppedWithLoopOpenSeen ==
    /\ pc = "idle"
    /\ ioloop_thread = 1
    /\ tstate[1] = "failed"
    /\ constructed = Channels
    /\ \A ch \in Channels : ~chan[ch].alive
    /\ ~ioClosed

\* C20: no IOLoopThread is started on a loop that has been closed.
NoThreadOnClosedLoop ==
    [][\A t \in Threads :
           (tstate[t] = "none" /\ tstate'[t] = "started") => ~ioClosed]_vars

====
